---- MODULE Spec2Model ----
(***************************************************************************)
(* A model of index_documents.py: the text extractor, the whitespace       *)
(* normalizer, the fixed-size overlapping chunker, the per-chunk embedder, *)
(* the transactional persister and the pipeline (main) that wires them.    *)
(*                                                                         *)
(* Strings are sequences of one-character strings, so that slicing,        *)
(* trimming, lower-casing and suffix tests are computed, not assumed.      *)
(***************************************************************************)
EXTENDS Integers, Sequences, FiniteSets, TLC

VARIABLES
    pc,          \* position of the running call: see the actions
    args,        \* the inputs of the call under way (a record)
    ret,         \* [raised, value] of a finished function call
    text,        \* main: the text load_text returned
    chunks,      \* main / insert_chunks: the chunk texts
    vectors,     \* embed_texts: the vectors collected so far
    embeddings,  \* main / insert_chunks: the vectors embed_texts returned
    requests,    \* the chunk texts sent to the embedding service, in order
    rows,        \* insert_chunks: the rows built for the batch insert
    conn,        \* "none" | "open" | "closed": the storage connection of the run
    pending,     \* rows inserted in the open transaction, not yet committed
    store,       \* the committed rows of document_chunks
    store0,      \* the committed rows when the run started (history)
    calls,       \* how many times each component was entered (history)
    out          \* what the run printed, in order

vars == <<pc, args, ret, text, chunks, vectors, embeddings, requests, rows,
          conn, pending, store, store0, calls, out>>

(***************************************************************************)
(* Bounds of the model.                                                    *)
(***************************************************************************)
MaxLen  == 4      \* longest text handed to the chunker on its own
MaxSize == 3      \* largest chunk_size / overlap tried on the chunker
MaxNeg  == 2      \* chunk_size and overlap range over -MaxNeg .. MaxSize
MaxRows == 2      \* longest chunk / embedding list handed to insert_chunks

(***************************************************************************)
(* Program constants.                                                      *)
(***************************************************************************)
SPLIT_STRATEGY == "fixed_overlap"
CHUNK_SIZE == 1000
CHUNK_OVERLAP == 200

(***************************************************************************)
(* Characters and the Python string operations the program uses.           *)
(***************************************************************************)
WS == {" ", "\n", "\t"}

Min(a, b) == IF a < b THEN a ELSE b

\* str.lower(), on the characters the model's paths use.
LowerChar(c) ==
    CASE c = "P" -> "p"
      [] c = "D" -> "d"
      [] c = "F" -> "f"
      [] c = "O" -> "o"
      [] c = "C" -> "c"
      [] c = "X" -> "x"
      [] c = "T" -> "t"
      [] c = "A" -> "a"
      [] OTHER -> c

Lower(s) == [i \in 1..Len(s) |-> LowerChar(s[i])]

\* str.endswith(suffix)
EndsWith(s, suffix) ==
    /\ Len(suffix) <= Len(s)
    /\ SubSeq(s, Len(s) - Len(suffix) + 1, Len(s)) = suffix

\* A slice index as Python resolves it against a string of length n.
SliceIndex(i, n) ==
    IF i < 0 THEN (IF i + n < 0 THEN 0 ELSE i + n)
    ELSE IF i > n THEN n ELSE i

\* s[a:b]
PySlice(s, a, b) ==
    LET lo == SliceIndex(a, Len(s))
        hi == SliceIndex(b, Len(s))
    IN  IF hi <= lo THEN <<>> ELSE SubSeq(s, lo + 1, hi)

\* str.strip(): drop the leading and the trailing whitespace.
Strip(s) ==
    IF \A i \in 1..Len(s) : s[i] \in WS THEN <<>>
    ELSE LET first == CHOOSE i \in 1..Len(s) :
                          s[i] \notin WS /\ \A j \in 1..(i - 1) : s[j] \in WS
             back  == CHOOSE k \in 0..(Len(s) - 1) :
                          /\ s[Len(s) - k] \notin WS
                          /\ \A j \in (Len(s) - k + 1)..Len(s) : s[j] \in WS
         IN  SubSeq(s, first, Len(s) - back)

\* The last character of the word that starts at s.
WordEnd(t, s) ==
    CHOOSE e \in s..Len(t) :
        /\ e = Len(t) \/ t[e + 1] \in WS
        /\ \A j \in s..e : t[j] \notin WS

\* str.split(): the maximal runs of non-whitespace, in order.  Words(t, lo, hi)
\* are the words that start at a position in lo..hi.
RECURSIVE Words(_, _, _)
Words(t, lo, hi) ==
    IF lo > hi THEN <<>>
    ELSE IF lo = hi
         THEN IF t[lo] \notin WS /\ (lo = 1 \/ t[lo - 1] \in WS)
              THEN <<SubSeq(t, lo, WordEnd(t, lo))>>
              ELSE <<>>
         ELSE LET mid == (lo + hi) \div 2
              IN  Words(t, lo, mid) \o Words(t, mid + 1, hi)

PySplit(t) == Words(t, 1, Len(t))

\* sep.join(parts[lo..hi])
RECURSIVE JoinRange(_, _, _, _)
JoinRange(sep, parts, lo, hi) ==
    IF lo > hi THEN <<>>
    ELSE IF lo = hi THEN parts[lo]
         ELSE LET mid == (lo + hi) \div 2
              IN  JoinRange(sep, parts, lo, mid) \o sep
                      \o JoinRange(sep, parts, mid + 1, hi)

PyJoin(sep, parts) == JoinRange(sep, parts, 1, Len(parts))

(***************************************************************************)
(* The normalizer and the chunker.                                         *)
(***************************************************************************)
normalize_whitespace(t) == PyJoin(<<" ">>, PySplit(t))

\* A wrong guard: the boundary overlap = chunk_size passes.
InvalidConfigurationStrict(chunk_size, overlap) == overlap > chunk_size

\* The guard of split_fixed_overlap.
InvalidConfiguration(chunk_size, overlap) == overlap >= chunk_size

\* A wrong step: the windows advance one character too far.
StepTooFar(chunk_size, overlap) == chunk_size - overlap + 1

Step(chunk_size, overlap) == chunk_size - overlap

\* A wrong window: one character short.
WindowShort(t, start, chunk_size) == PySlice(t, start, start + chunk_size - 1)

\* The window at `start`, before it is trimmed.
Window(t, start, chunk_size) == PySlice(t, start, start + chunk_size)

\* The loop over range(0, len(text), step), step > 0: the chunks kept so far,
\* each with the start offset of its window.
RECURSIVE SplitLoop(_, _, _, _, _)
SplitLoop(t, chunk_size, step, start, acc) ==
    IF start >= Len(t) THEN acc
    ELSE LET chunk == Strip(Window(t, start, chunk_size))
         IN  SplitLoop(t, chunk_size, step, start + step,
                       IF chunk # <<>>
                       THEN Append(acc, [start |-> start, chunk |-> chunk])
                       ELSE acc)

\* split_fixed_overlap: what it raises, the chunks it returns, and the start
\* offsets of the windows the chunks came from.
split_fixed_overlap(t, chunk_size, overlap) ==
    IF InvalidConfiguration(chunk_size, overlap)
    THEN [raised |-> "InvalidConfiguration", value |-> <<>>, starts |-> <<>>]
    ELSE LET n    == normalize_whitespace(t)
             step == Step(chunk_size, overlap)
         IN  IF n = <<>>
             THEN [raised |-> "none", value |-> <<>>, starts |-> <<>>]
             ELSE IF step = 0
             THEN \* range() refuses a zero step
                  [raised |-> "ValueError", value |-> <<>>, starts |-> <<>>]
             ELSE LET kept == IF step < 0 THEN <<>>
                              ELSE SplitLoop(n, chunk_size, step, 0, <<>>)
                  IN  [raised |-> "none",
                       value  |-> [i \in 1..Len(kept) |-> kept[i].chunk],
                       starts |-> [i \in 1..Len(kept) |-> kept[i].start]]

(***************************************************************************)
(* The text extractor.  A file is [ok, units]: whether the parser can read *)
(* it, and its pages (PDF) or paragraphs (DOCX), each [none, text].        *)
(***************************************************************************)
\* os.path.basename(path): what follows the last "/".
BaseName(path) ==
    IF \A i \in 1..Len(path) : path[i] # "/" THEN path
    ELSE LET k == CHOOSE k \in 0..(Len(path) - 1) :
                      /\ path[Len(path) - k] = "/"
                      /\ \A j \in (Len(path) - k + 1)..Len(path) : path[j] # "/"
         IN  SubSeq(path, Len(path) - k + 1, Len(path))

\* page.extract_text() or ""
TextOrEmpty(unit) == IF unit.none THEN <<>> ELSE unit.text

read_pdf(file) ==
    Strip(PyJoin(<<"\n">>, [i \in 1..Len(file.units) |-> TextOrEmpty(file.units[i])]))

read_docx(file) ==
    Strip(PyJoin(<<"\n">>, [i \in 1..Len(file.units) |-> file.units[i].text]))

\* A wrong comparison: the case of the path is kept.
PathKeepCase(path) == path

\* path.lower()
PathLower(path) == Lower(path)

\* load_text: what it raises and the text it returns.
load_text(path, file) ==
    LET p == PathLower(path)
    IN  IF EndsWith(p, <<".", "p", "d", "f">>)
        THEN IF file.ok THEN [raised |-> "none", value |-> read_pdf(file)]
             ELSE [raised |-> "ParserError", value |-> <<>>]
        ELSE IF EndsWith(p, <<".", "d", "o", "c", "x">>)
        THEN IF file.ok THEN [raised |-> "none", value |-> read_docx(file)]
             ELSE [raised |-> "ParserError", value |-> <<>>]
        ELSE [raised |-> "UnsupportedFormat", value |-> <<>>]

(***************************************************************************)
(* The persister's pure parts.                                             *)
(***************************************************************************)
\* A wrong guard: a shorter chunk list passes, and zip() cuts the rest.
LengthMismatchOneWay(cs, es) == Len(cs) > Len(es)

\* The guard of insert_chunks.
LengthMismatch(cs, es) == Len(cs) # Len(es)

\* The rows of one call: zip(chunks, embeddings), each with a fresh id (uuid4,
\* modelled as the next unused number), the filename, the strategy label and
\* the one timestamp taken before the rows are built.
BuildRows(filename, cs, es, now, used) ==
    [i \in 1..Min(Len(cs), Len(es)) |->
        [id |-> used + i, chunk_text |-> cs[i], embedding |-> es[i],
         filename |-> filename, split_strategy |-> SPLIT_STRATEGY,
         created_at |-> now]]

\* A wrong transaction: every inserted row is committed at once (autocommit).
ExecuteAutocommit(st, pend, row) ==
    [store |-> Append(st, row), pending |-> Append(pend, row)]

\* One INSERT of execute_values inside the open transaction.
ExecuteRow(st, pend, row) == [store |-> st, pending |-> Append(pend, row)]

\* conn.commit()
Commit(st, pend) == st \o pend

(***************************************************************************)
(* The embedder's pure part.                                               *)
(***************************************************************************)
\* A wrong loop: the texts are sent last first.
NextTextReversed(texts, done) == texts[Len(texts) - done]

\* for t in texts: the text of the next request, `done` requests made so far.
NextText(texts, done) == texts[done + 1]

\* A wrong test: the empty text goes on to the chunker and the embedder.
NoTextNever(t) == FALSE

\* if not text
NoText(t) == t = <<>>

(***************************************************************************)
(* Inputs the model draws from.                                            *)
(***************************************************************************)
Alphabet == {"a", "b", " ", "\n"}

TextsUpTo(n) == UNION {[1..k -> Alphabet] : k \in 0..n}

Sizes == (0 - MaxNeg)..MaxSize

\* The text of the chunker's worked example.
ExampleText == <<"a", "b", "c", "d", "e", "f", "g", "h", "i", "j">>

\* A text of n characters "a", but c at position p (p = 0: nowhere) and, when
\* twice, at position p + 1 too.
Doc(n, p, c, twice) ==
    [i \in 1..n |-> IF p > 0 /\ (i = p \/ (twice /\ i = p + 1)) THEN c ELSE "a"]

\* Where the long texts carry their whitespace: the ends, the edges of the
\* windows at the default size, and a grid in between.
DocPositions == {0, 1, 2, 800, 801, 802, 999, 1000, 1001, 1499, 1500, 1501}
                    \cup {50 * k : k \in 1..29}

DocTexts == {Doc(n, p, c, twice) : n \in {1500, 1501}, p \in DocPositions,
                                   c \in {" ", "\n"}, twice \in BOOLEAN}

Unit(t) == [none |-> FALSE, text |-> t]
NoneUnit == [none |-> TRUE, text |-> <<>>]

\* The files: unreadable; no page; a page with no text; whitespace only; a short
\* text over two units; texts long enough for three chunks at the default size.
Files ==
    { [ok |-> FALSE, units |-> <<>>],
      [ok |-> TRUE, units |-> <<>>],
      [ok |-> TRUE, units |-> <<NoneUnit>>],
      [ok |-> TRUE, units |-> <<Unit(<<" ", "\n">>), NoneUnit>>],
      [ok |-> TRUE, units |-> <<Unit(<<"a", " ", "b">>), Unit(<<" ", "c">>)>>],
      [ok |-> TRUE, units |-> <<Unit(Doc(1700, 850, " ", TRUE))>>],
      [ok |-> TRUE, units |-> <<Unit(Doc(900, 0, " ", FALSE)),
                                Unit(Doc(900, 100, "\t", FALSE))>>] }

Paths ==
    { <<"a", ".", "p", "d", "f">>,
      <<"d", "/", "A", ".", "P", "D", "F">>,
      <<"a", ".", "D", "o", "c", "x">>,
      <<".", "p", "d", "f">>,
      <<"a", ".", "t", "x", "t">>,
      <<"a", ".", "T", "X", "T">>,
      <<"a", ".", "d", "o", "c">>,
      <<"a", ".", "p", "d", "f", "x">>,
      <<"p", "d", "f">>,
      <<"a", ".", "p", "d", "f", "/", "b">>,
      <<>> }

\* What the embedding service may answer with.
Vectors == {<<0>>, <<1>>}

\* The values datetime.utcnow() may return.
Clock == {1, 2}

OldRow == [id |-> 1, chunk_text |-> <<"o">>, embedding |-> <<0>>,
           filename |-> <<"o">>, split_strategy |-> SPLIT_STRATEGY,
           created_at |-> 0]

Stores == {<<>>, <<OldRow>>}

NoCalls == [load_text |-> 0, split_fixed_overlap |-> 0, embed_texts |-> 0,
            insert_chunks |-> 0, db_connect |-> 0, execute_values |-> 0,
            commit |-> 0]

NoRet == [raised |-> "none", at |-> "none"]

Raise(error, at) == [raised |-> error, at |-> at]

Terminal == pc \in {"done", "failed"}

Bump(c, f) == [c EXCEPT ![f] = @ + 1]

(***************************************************************************)
(* split_fixed_overlap called on its own.                                  *)
(***************************************************************************)
SplitArgs(t, S, O) ==
    [fn |-> "split_fixed_overlap", text |-> t, chunk_size |-> S, overlap |-> O]

Idle ==
    /\ text = <<>> /\ chunks = <<>> /\ vectors = <<>> /\ embeddings = <<>>
    /\ requests = <<>>
    /\ rows = <<>> /\ conn = "none" /\ pending = <<>> /\ store = <<>>
    /\ store0 = <<>> /\ calls = NoCalls /\ out = <<>>

InitSplit ==
    /\ pc = "split_call"
    /\ args \in {SplitArgs(t, S, O) : t \in TextsUpTo(MaxLen), S \in Sizes, O \in Sizes}
                    \cup {SplitArgs(ExampleText, 4, 1)}
    /\ ret = [raised |-> "none", value |-> <<>>, starts |-> <<>>]
    /\ Idle

InitDefault ==
    /\ pc = "split_call"
    /\ args \in {SplitArgs(t, CHUNK_SIZE, CHUNK_OVERLAP) : t \in DocTexts}
    /\ ret = [raised |-> "none", value |-> <<>>, starts |-> <<>>]
    /\ Idle

SplitCall ==
    /\ pc = "split_call"
    /\ ret' = split_fixed_overlap(args.text, args.chunk_size, args.overlap)
    /\ pc' = IF ret'.raised = "none" THEN "returned" ELSE "raised"
    /\ calls' = Bump(calls, "split_fixed_overlap")
    /\ UNCHANGED <<args, text, chunks, vectors, embeddings, requests, rows,
                   conn, pending, store, store0, out>>

NextSplit == SplitCall

SpecSplit == InitSplit /\ [][NextSplit]_vars

SpecDefault == InitDefault /\ [][NextSplit]_vars

(***************************************************************************)
(* The pipeline: main, with embed_texts and insert_chunks step by step.    *)
(* A raised error is caught nowhere: it ends the run (pc = "failed").      *)
(***************************************************************************)
InitMain ==
    /\ pc = "main_load"
    /\ args \in {[fn |-> "main", path |-> p, file |-> f, api_key |-> k] :
                    p \in Paths, f \in Files, k \in BOOLEAN}
    /\ ret = NoRet
    /\ text = <<>> /\ chunks = <<>> /\ vectors = <<>> /\ embeddings = <<>>
    /\ requests = <<>> /\ rows = <<>> /\ conn = "none" /\ pending = <<>>
    /\ store0 \in Stores
    /\ store = store0
    /\ calls = NoCalls
    /\ out = <<>>

\* The filename insert_chunks is given: main passes os.path.basename(path).
Filename == IF args.fn = "main" THEN BaseName(args.path) ELSE args.filename

\* text = load_text(path)
MainLoadText ==
    /\ pc = "main_load"
    /\ LET r == load_text(args.path, args.file)
       IN  /\ calls' = Bump(calls, "load_text")
           /\ IF r.raised = "none"
              THEN /\ text' = r.value
                   /\ pc' = "main_check"
                   /\ ret' = ret
              ELSE /\ text' = text
                   /\ pc' = "failed"
                   /\ ret' = Raise(r.raised, "load_text")
    /\ UNCHANGED <<args, chunks, vectors, embeddings, requests, rows, conn,
                   pending, store, store0, out>>

\* if not text: print(...); return
MainNothingToIndex ==
    /\ pc = "main_check"
    /\ NoText(text)
    /\ out' = Append(out, "nothing to index")
    /\ pc' = "done"
    /\ UNCHANGED <<args, ret, text, chunks, vectors, embeddings, requests, rows,
                   conn, pending, store, store0, calls>>

\* chunks = split_fixed_overlap(text, CHUNK_SIZE, CHUNK_OVERLAP); print(...)
MainSplit ==
    /\ pc = "main_check"
    /\ ~NoText(text)
    /\ LET r == split_fixed_overlap(text, CHUNK_SIZE, CHUNK_OVERLAP)
       IN  /\ calls' = Bump(calls, "split_fixed_overlap")
           /\ IF r.raised = "none"
              THEN /\ chunks' = r.value
                   /\ out' = Append(out, "extracted")
                   /\ pc' = "embed_enter"
                   /\ ret' = ret
              ELSE /\ chunks' = chunks
                   /\ out' = out
                   /\ pc' = "failed"
                   /\ ret' = Raise(r.raised, "split_fixed_overlap")
    /\ UNCHANGED <<args, text, vectors, embeddings, requests, rows, conn,
                   pending, store, store0>>

\* embed_texts(chunks): the credential check, then vectors = [].
EmbedEnter ==
    /\ pc = "embed_enter"
    /\ calls' = Bump(calls, "embed_texts")
    /\ IF args.api_key
       THEN pc' = "embed_loop" /\ ret' = ret
       ELSE pc' = "failed" /\ ret' = Raise("MissingCredential", "embed_texts")
    /\ vectors' = <<>>
    /\ UNCHANGED <<args, text, chunks, embeddings, requests, rows, conn,
                   pending, store, store0, out>>

\* One pass of `for t in texts`: the request blocks until the service answers
\* with a vector or fails; a failure propagates out of embed_texts.
EmbedRequest ==
    /\ pc = "embed_loop"
    /\ Len(vectors) < Len(chunks)
    /\ requests' = Append(requests, NextText(chunks, Len(vectors)))
    /\ \/ \E vec \in Vectors :
             /\ vectors' = Append(vectors, vec)
             /\ pc' = pc
             /\ ret' = ret
       \/ /\ vectors' = vectors
          /\ pc' = "failed"
          /\ ret' = Raise("EmbeddingServiceError", "embed_texts")
    /\ UNCHANGED <<args, text, chunks, embeddings, rows, conn, pending, store,
                   store0, calls, out>>

\* return vectors; main prints the count and goes on to insert_chunks.
EmbedReturn ==
    /\ pc = "embed_loop"
    /\ Len(vectors) = Len(chunks)
    /\ embeddings' = vectors
    /\ out' = Append(out, "created embeddings")
    /\ pc' = "insert_enter"
    /\ UNCHANGED <<args, ret, text, chunks, vectors, requests, rows, conn,
                   pending, store, store0, calls>>

\* insert_chunks: the length check, then now = utcnow() and the rows.
InsertEnter ==
    /\ pc = "insert_enter"
    /\ calls' = Bump(calls, "insert_chunks")
    /\ IF LengthMismatch(chunks, embeddings)
       THEN /\ pc' = "failed"
            /\ ret' = Raise("LengthMismatch", "insert_chunks")
            /\ rows' = rows
       ELSE /\ pc' = "insert_connect"
            /\ ret' = ret
            /\ \E now \in Clock :
                  rows' = BuildRows(Filename, chunks, embeddings, now, Len(store))
    /\ UNCHANGED <<args, text, chunks, vectors, embeddings, requests, conn,
                   pending, store, store0, out>>

\* with db_connect() as conn: the connection opens, or psycopg2.connect raises.
InsertConnect ==
    /\ pc = "insert_connect"
    /\ calls' = Bump(calls, "db_connect")
    /\ \E ok \in BOOLEAN :
          IF ok
          THEN conn' = "open" /\ pc' = "insert_execute" /\ ret' = ret
          ELSE conn' = conn /\ pc' = "failed"
               /\ ret' = Raise("StorageError", "db_connect")
    /\ UNCHANGED <<args, text, chunks, vectors, embeddings, requests, rows,
                   pending, store, store0, out>>

\* execute_values(cur, sql, rows), one INSERT at a time inside the transaction.
\* A failure leaves the with block by an exception: the transaction is rolled
\* back, and nothing closes the connection.
InsertExecute ==
    /\ pc = "insert_execute"
    /\ Len(pending) < Len(rows)
    /\ calls' = IF pending = <<>> THEN Bump(calls, "execute_values") ELSE calls
    /\ \E ok \in BOOLEAN :
          IF ok
          THEN LET r == ExecuteRow(store, pending, rows[Len(pending) + 1])
               IN  /\ store' = r.store
                   /\ pending' = r.pending
                   /\ pc' = pc
                   /\ ret' = ret
          ELSE /\ store' = store
               /\ pending' = <<>>
               /\ pc' = "failed"
               /\ ret' = Raise("StorageError", "execute_values")
    /\ UNCHANGED <<args, text, chunks, vectors, embeddings, requests, rows, conn,
                   store0, out>>

\* conn.commit(): every pending row becomes visible at once, or the commit
\* fails and the with block rolls the transaction back.
InsertCommit ==
    /\ pc = "insert_execute"
    /\ Len(pending) = Len(rows)
    /\ calls' = Bump(calls, "commit")
    /\ \E ok \in BOOLEAN :
          IF ok
          THEN store' = Commit(store, pending) /\ pc' = "insert_exit" /\ ret' = ret
          ELSE store' = store /\ pc' = "failed"
               /\ ret' = Raise("StorageError", "commit")
    /\ pending' = <<>>
    /\ UNCHANGED <<args, text, chunks, vectors, embeddings, requests, rows, conn,
                   store0, out>>

\* The with block ends (psycopg2 commits again, which changes nothing, and does
\* not close the connection) and insert_chunks returns.  The code never calls
\* conn.close(): whether the now unreferenced connection is closed here is up
\* to the interpreter's finalization (reference counting does it at once, a
\* tracing collector later or never before exit).
InsertExit ==
    /\ pc = "insert_exit"
    /\ conn' \in {"open", "closed"}
    /\ pc' = IF args.fn = "main" THEN "main_inserted" ELSE "done"
    /\ UNCHANGED <<args, ret, text, chunks, vectors, embeddings, requests, rows,
                   pending, store, store0, calls, out>>

\* print("Inserted into document_chunks successfully.")
MainInserted ==
    /\ pc = "main_inserted"
    /\ out' = Append(out, "inserted")
    /\ pc' = "done"
    /\ UNCHANGED <<args, ret, text, chunks, vectors, embeddings, requests, rows,
                   conn, pending, store, store0, calls>>

Next ==
    \/ MainLoadText
    \/ MainNothingToIndex
    \/ MainSplit
    \/ EmbedEnter
    \/ EmbedRequest
    \/ EmbedReturn
    \/ InsertEnter
    \/ InsertConnect
    \/ InsertExecute
    \/ InsertCommit
    \/ InsertExit
    \/ MainInserted

Spec == InitMain /\ [][Next]_vars

(***************************************************************************)
(* insert_chunks called on its own, with any two lists.                    *)
(***************************************************************************)
ChunkTexts == {<<"a">>, <<"b", "c">>}

ListsUpTo(S, n) == UNION {[1..k -> S] : k \in 0..n}

InitInsert ==
    /\ pc = "insert_enter"
    /\ args \in {[fn |-> "insert_chunks", filename |-> f] :
                    f \in {<<"a", ".", "p", "d", "f">>}}
    /\ ret = NoRet
    /\ chunks \in ListsUpTo(ChunkTexts, MaxRows)
    /\ embeddings \in ListsUpTo(Vectors, MaxRows)
    /\ text = <<>> /\ vectors = <<>> /\ requests = <<>> /\ rows = <<>>
    /\ conn = "none" /\ pending = <<>>
    /\ store0 \in Stores
    /\ store = store0
    /\ calls = NoCalls
    /\ out = <<>>

NextInsert ==
    \/ InsertEnter
    \/ InsertConnect
    \/ InsertExecute
    \/ InsertCommit
    \/ InsertExit

SpecInsert == InitInsert /\ [][NextInsert]_vars

(***************************************************************************)
(* The chunker as the specification words it: the windows of the           *)
(* normalized text N at the offsets 0, step, 2*step, ... below len(N).     *)
(***************************************************************************)
StatedOffsets(N, step) == {a \in 0..(Len(N) - 1) : a % step = 0}

\* N[a .. a+S), shorter at the tail.
StatedSubstring(N, a, S) ==
    [i \in 1..(IF S <= 0 THEN 0 ELSE Min(S, Len(N) - a)) |-> N[a + i]]

AllWhitespace(w) == \A i \in 1..Len(w) : w[i] \in WS

\* The trimmed, non-empty windows in increasing order of their offsets.
StatedChunks(N, S, O) ==
    LET kept == {a \in StatedOffsets(N, S - O) :
                    ~AllWhitespace(StatedSubstring(N, a, S))}
        nth(i) == CHOOSE a \in kept : Cardinality({b \in kept : b < a}) = i - 1
    IN  [i \in 1..Cardinality(kept) |-> Strip(StatedSubstring(N, nth(i), S))]

SplitReturned == pc \in {"returned", "raised"} /\ args.fn = "split_fixed_overlap"

\* Every position of the normalized text is inside the window of a kept chunk.
Covered(N, S, starts) ==
    \A p \in 0..(Len(N) - 1) :
        \E i \in 1..Len(starts) : starts[i] <= p /\ p < starts[i] + S

NoBlankWindow(N, S, O) ==
    \A a \in StatedOffsets(N, S - O) : ~AllWhitespace(StatedSubstring(N, a, S))

\* C1 (as stated): for every text and every (S, O) with O < S the call returns
\* the trimmed non-empty windows N[a .. a+S) of the normalized text at the
\* offsets 0, step, 2*step, ... < len(N), in increasing order.
C1_AnySize ==
    (SplitReturned /\ args.overlap < args.chunk_size) =>
        /\ ret.raised = "none"
        /\ ret.value = StatedChunks(normalize_whitespace(args.text),
                                    args.chunk_size, args.overlap)

\* C1 (amended): the same, for every (S, O) with O < S and S >= 0; a negative
\* chunk size makes the end of the slice count from the end of the text.
C1_WindowsOfNormalizedText ==
    (SplitReturned /\ args.overlap < args.chunk_size /\ args.chunk_size >= 0) =>
        /\ ret.raised = "none"
        /\ ret.value = StatedChunks(normalize_whitespace(args.text),
                                    args.chunk_size, args.overlap)

\* The worked example: "abcdefghij", S = 4, O = 1 gives abcd, defg, ghij, j.
C1_Witness ==
    /\ SplitReturned
    /\ args.text = ExampleText /\ args.chunk_size = 4 /\ args.overlap = 1
    /\ ret.starts = <<0, 3, 6, 9>>
    /\ ret.value = << <<"a", "b", "c", "d">>, <<"d", "e", "f", "g">>,
                      <<"g", "h", "i", "j">>, <<"j">> >>

\* C2: the call fails with InvalidConfiguration exactly when O >= S, the
\* boundary O = S included, whatever the text, and then yields no chunk.
C2_InvalidConfigurationIff ==
    SplitReturned =>
        /\ (ret.raised = "InvalidConfiguration") <=> (args.overlap >= args.chunk_size)
        /\ (args.overlap >= args.chunk_size) => (pc = "raised" /\ ret.value = <<>>)

\* The boundary O = S on a text of whitespace only: the error is still raised.
C2_Witness ==
    /\ pc = "raised" /\ ret.raised = "InvalidConfiguration"
    /\ args.overlap = args.chunk_size
    /\ args.text = <<" ", "\n">>

\* C3 (as stated): for all (S, O) with O < S, when no window of the normalized
\* text is all whitespace, the windows of the chunks returned leave no gap.
C3_NoGapAnyOverlap ==
    (/\ SplitReturned /\ args.overlap < args.chunk_size
     /\ NoBlankWindow(normalize_whitespace(args.text), args.chunk_size, args.overlap)) =>
        Covered(normalize_whitespace(args.text), args.chunk_size, ret.starts)

\* C3 (amended): the same for 0 <= O < S; a negative overlap makes the step
\* larger than the window.
C3_NoGap ==
    (/\ SplitReturned /\ 0 <= args.overlap /\ args.overlap < args.chunk_size
     /\ NoBlankWindow(normalize_whitespace(args.text), args.chunk_size, args.overlap)) =>
        Covered(normalize_whitespace(args.text), args.chunk_size, ret.starts)

\* Several overlapping windows over a text with an inner space, none blank.
C3_Witness ==
    /\ SplitReturned /\ 0 < args.overlap /\ args.overlap < args.chunk_size
    /\ NoBlankWindow(normalize_whitespace(args.text), args.chunk_size, args.overlap)
    /\ Len(ret.starts) >= 2
    /\ \E i \in 1..Len(args.text) : args.text[i] = " "
    /\ Len(normalize_whitespace(args.text)) > args.chunk_size

\* C10 (as stated): at the default size and overlap any text of length 1500
\* is cut at the offsets 0 and 800 into 2 chunks, the second 700 long.
C10_AnyTextOf1500 ==
    (SplitReturned /\ args.chunk_size = CHUNK_SIZE /\ args.overlap = CHUNK_OVERLAP
        /\ Len(args.text) = 1500) =>
        /\ ret.starts = <<0, 800>>
        /\ Len(ret.value) = 2
        /\ Len(ret.value[2]) = 700

\* C10 (amended): at the default size and overlap a text whose normalized form
\* N has length 1500 is cut at the offsets 0 and 800 into 2 chunks; the second
\* is 700 long, or 699 when N has its space at offset 800 (it is trimmed).
C10_NormalizedTextOf1500 ==
    (SplitReturned /\ args.chunk_size = CHUNK_SIZE /\ args.overlap = CHUNK_OVERLAP
        /\ Len(normalize_whitespace(args.text)) = 1500) =>
        /\ ret.starts = <<0, 800>>
        /\ Len(ret.value) = 2
        /\ Len(ret.value[2]) =
              IF normalize_whitespace(args.text)[801] = " " THEN 699 ELSE 700

\* A text of 1500 characters with an inner newline: two chunks, 1000 and 700.
C10_Witness ==
    /\ SplitReturned /\ args.chunk_size = CHUNK_SIZE /\ args.overlap = CHUNK_OVERLAP
    /\ Len(args.text) = 1500 /\ args.text[500] = "\n"
    /\ ret.starts = <<0, 800>>
    /\ Len(ret.value) = 2 /\ Len(ret.value[1]) = 1000 /\ Len(ret.value[2]) = 700

(***************************************************************************)
(* The pipeline's claims.                                                  *)
(***************************************************************************)
\* load_text has returned a text to main.
Extracted == args.fn = "main" /\ pc # "main_load" /\ ret.at # "load_text"

NoStorageCall ==
    /\ calls.insert_chunks = 0 /\ calls.db_connect = 0
    /\ calls.execute_values = 0 /\ calls.commit = 0
    /\ conn = "none" /\ pending = <<>> /\ store = store0

NoEmbedderCall == calls.embed_texts = 0 /\ requests = <<>>

\* C4: when extraction yields the empty text the run reports "nothing to
\* index" and ends normally, with no call of the embedder or the persister;
\* and the embedder is only called after a non-empty text was extracted.
C4_EmptyTextShortCircuit ==
    /\ (Extracted /\ text = <<>>) =>
          /\ pc \in {"main_check", "done"}
          /\ ret.raised = "none"
          /\ pc = "main_check" => ENABLED MainNothingToIndex
          /\ pc = "done" => out = <<"nothing to index">>
          /\ NoEmbedderCall
          /\ NoStorageCall
    /\ (calls.embed_texts > 0 \/ requests # <<>>) => (Extracted /\ text # <<>>)

\* A file whose only text is whitespace: trimmed to nothing, the run is over.
C4_Witness ==
    /\ pc = "done" /\ Extracted /\ text = <<>>
    /\ \E i \in 1..Len(args.file.units) : args.file.units[i].text # <<>>
    /\ out = <<"nothing to index">>

\* C5: the embedder sends one request per chunk, in the order of the chunks,
\* each answered before the next is sent; when the request for chunk k fails
\* nothing is sent for the later chunks, no vector is returned to main, the
\* run is over and the persister was never entered: no row is written.
C5_EmbedFailureAborts ==
    /\ Len(requests) <= Len(chunks)
    /\ requests = SubSeq(chunks, 1, Len(requests))
    /\ pc = "embed_loop" => Len(requests) = Len(vectors)
    /\ calls.insert_chunks > 0 => Len(requests) = Len(chunks)
    /\ ret.raised = "EmbeddingServiceError" =>
          /\ pc = "failed"
          /\ ~ENABLED Next
          /\ Len(requests) = Len(vectors) + 1
          /\ embeddings = <<>>
          /\ NoStorageCall

\* The second of three requests fails: the third chunk is never sent.
C5_Witness ==
    /\ ret.raised = "EmbeddingServiceError"
    /\ Len(chunks) = 3 /\ Len(requests) = 2 /\ Len(vectors) = 1
    /\ requests[2] = chunks[2] /\ chunks[2] # chunks[1]

\* The extension of a path: from its last "." on (empty when it has none).
StatedExtension(path) ==
    IF \A i \in 1..Len(path) : path[i] # "." THEN <<>>
    ELSE LET d == CHOOSE d \in 1..Len(path) :
                      path[d] = "." /\ \A j \in (d + 1)..Len(path) : path[j] # "."
         IN  SubSeq(path, d, Len(path))

StatedSupported(path) ==
    Lower(StatedExtension(path)) \in
        {<<".", "p", "d", "f">>, <<".", "d", "o", "c", "x">>}

\* C8: a path whose extension, compared without regard to case, is neither
\* .pdf nor .docx fails with UnsupportedFormat before any chunking, embedding
\* or storage call, the store unchanged; a .pdf or .docx path never does.
C8_UnsupportedFormat ==
    (args.fn = "main" /\ pc # "main_load") =>
        IF StatedSupported(args.path)
        THEN ret.raised # "UnsupportedFormat"
        ELSE /\ pc = "failed"
             /\ ret = Raise("UnsupportedFormat", "load_text")
             /\ calls.split_fixed_overlap = 0
             /\ NoEmbedderCall
             /\ NoStorageCall

\* "a.TXT" is refused although the file could be read and a row is stored.
C8_Witness ==
    /\ pc = "failed" /\ ret.raised = "UnsupportedFormat"
    /\ args.path = <<"a", ".", "T", "X", "T">>
    /\ args.file.ok /\ args.file.units # <<>>
    /\ store = store0 /\ store0 # <<>>

\* C9: in every final state of a run, no storage connection it opened is
\* still open.
C9_ConnectionReleased == Terminal => conn # "open"

(***************************************************************************)
(* The persister's claims.                                                 *)
(***************************************************************************)
Gained == Len(store) - Len(store0)

\* C6: the store only grows, and by all the rows of the call or by none: the
\* i-th new row pairs chunk i with embedding i, and all carry the filename,
\* the strategy label and one timestamp.  A call that returns has stored
\* len(chunks) = len(embeddings) rows, a call that fails none.
C6_AllRowsOrNone ==
    /\ Gained >= 0
    /\ SubSeq(store, 1, Len(store0)) = store0
    /\ \/ Gained = 0
       \/ /\ Gained = Len(chunks) /\ Gained = Len(embeddings)
          /\ \A i \in 1..Gained :
                LET row == store[Len(store0) + i]
                IN  /\ row.chunk_text = chunks[i]
                    /\ row.embedding = embeddings[i]
                    /\ row.filename = Filename
                    /\ row.split_strategy = SPLIT_STRATEGY
                    /\ row.created_at = store[Len(store0) + 1].created_at
    /\ pc = "done" => (Gained = Len(chunks) /\ Gained = Len(embeddings))
    /\ pc = "failed" => Gained = 0

\* Two different chunks stored behind a row that was there before.
C6_Witness ==
    /\ pc = "done" /\ args.fn = "insert_chunks"
    /\ store0 # <<>> /\ Gained = 2
    /\ chunks[1] # chunks[2] /\ embeddings[1] # embeddings[2]

\* C7: insert_chunks fails with LengthMismatch exactly when the two lists
\* differ in length, and then before storage is touched: no connection, no
\* insert, no commit, the stored rows unchanged.
C7_LengthMismatchIff ==
    /\ (args.fn = "insert_chunks" /\ Terminal) =>
          ((ret.raised = "LengthMismatch") <=> (Len(chunks) # Len(embeddings)))
    /\ (args.fn = "insert_chunks" /\ Len(chunks) # Len(embeddings)) =>
          /\ pc \in {"insert_enter", "failed"}
          /\ calls.db_connect = 0 /\ calls.execute_values = 0 /\ calls.commit = 0
          /\ conn = "none" /\ pending = <<>> /\ rows = <<>> /\ store = store0

\* One chunk against two embeddings, which zip() would have cut to one row.
C7_Witness ==
    /\ pc = "failed" /\ ret = Raise("LengthMismatch", "insert_chunks")
    /\ Len(chunks) = 1 /\ Len(embeddings) = 2
    /\ store = store0 /\ store0 # <<>>

====
